---- MODULE Spec2Model ----
(***************************************************************************)
(* Browser-side presentation layer of the numerical-methods tool:          *)
(*   - LinearSystemSolverComponent and RootFinderComponent (form state,    *)
(*     solve requests, step playback driven by setInterval),               *)
(*   - ApiService.solveSystem in its four revisions (default filling),     *)
(*   - ThemeService / ThemeToggleComponent (dark mode in localStorage).    *)
(* Spec           : one view-controller, its requests and its timers.      *)
(* FairSpec       : Spec with the interval timers firing (weak fairness).  *)
(* UISpec         : playback driven through the handlers bound to the view.*)
(* RequestSpec    : solve and plot requests, responses and failures.       *)
(* SpeedSpec      : playback at every position of the speed slider.        *)
(* SequentialSpec : one solve request at a time.                           *)
(* RootFormSpec   : the root-finder form and the requests built from it.   *)
(* FormSpec       : the linear form resized, typed into and reset.         *)
(* SubmitSpec     : the linear form filled in, then submitted.             *)
(* ApiSpec        : ApiService.solveSystem applied to one request.         *)
(* ThemeSpec      : the theme service over page loads.                     *)
(***************************************************************************)
EXTENDS Integers, Sequences, FiniteSets, TLC

VARIABLES
    kind,               \* which view-controller this instance is: "linear" | "root"
    rev,                \* which revision of ApiService is injected
    phase,              \* Angular lifecycle: "constructed" | "active" | "destroyed"
    numEquations, matrix, constants, initialGuess,   \* linear form
    rootForm,           \* root-finder form: equation, method, xLower, xUpper, x0, x1, gEquation
    result, steps, currentStep, loading, errorMessage,
    plotImage, loadingPlot, plotErrorMessage,
    isPlaying, speedLevel, simulationInterval,
    timers,             \* live browser interval timers: records [id, ms]
    inFlight,           \* solve requests POSTed and not yet answered: records [id, body]
    nextReq,            \* number of solve requests POSTed so far
    plotInFlight,       \* number of plot requests POSTed and not yet answered
    apiRequest,         \* the request object handed to ApiService.solveSystem
    apiOutcome,         \* what that call did: threw, or the url and body it POSTed
    localStorage,       \* localStorage["darkMode"]: Absent (null), "true" or "false"
    prefersDark,        \* window.matchMedia('(prefers-color-scheme: dark)').matches
    rootClassDark,      \* document.documentElement.classList contains 'dark'
    themeService,       \* "none" before construction, "alive" after
    darkModeSubject,    \* BehaviorSubject value of the live ThemeService
    emitted,            \* values delivered to the ThemeToggleComponent subscriber, in order
    toggleIsDarkMode,   \* ThemeToggleComponent.isDarkMode
    subscribed,         \* ThemeToggleComponent.ngOnInit has subscribed to darkMode$
    sessions            \* page loads so far

formVars == <<numEquations, matrix, constants, initialGuess, rootForm>>
resVars  == <<result, steps, currentStep, loading, errorMessage>>
plotVars == <<plotImage, loadingPlot, plotErrorMessage, plotInFlight>>
simVars  == <<isPlaying, simulationInterval, timers>>
netVars  == <<inFlight, nextReq>>
ctlVars == <<kind, phase, formVars, resVars, plotVars, simVars, speedLevel, netVars>>
apiVars == <<apiRequest, apiOutcome>>
themeVars == <<localStorage, prefersDark, rootClassDark, themeService, darkModeSubject,
               emitted, toggleIsDarkMode, subscribed, sessions>>
vars == <<ctlVars, rev, apiVars, themeVars>>

(***************************************************************************)
(* Bounds of the model.                                                    *)
(***************************************************************************)
MaxRequests  == 2      \* solve requests submitted in one run
MaxSteps     == 2      \* longest step trace a response carries
MaxTimers    == 2      \* interval timers alive at once
MaxEquations == 3      \* largest form size reached by addEquation
MaxPlots     == 1      \* plot requests outstanding at once
MaxN         == 2      \* largest system (n equations, n unknowns) handed to solveSystem
MaxSessions  == 3      \* page loads in one run
MaxEmitted   == 3      \* values one subscriber receives in one session
MaxEdits     == 2      \* form cells holding something the user typed

(***************************************************************************)
(* JavaScript values.                                                      *)
(***************************************************************************)
Absent == "<undefined>"               \* a field that is not there (undefined)
Truthy(s) == s # Absent /\ s # ""     \* truthiness of an optional string
OrElse(a, b) == IF Truthy(a) THEN a ELSE b      \* a || b

NullTimer == 0                        \* simulationInterval = null
NullResult == [req |-> 0, hasSteps |-> FALSE, steps |-> <<>>]

Fill(n, v) == [i \in 1..n |-> v]      \* Array(n).fill(v)
Shift(s) == IF Len(s) = 0 THEN s ELSE SubSeq(s, 2, Len(s))         \* Array.shift
Pop(s) == IF Len(s) = 0 THEN s ELSE SubSeq(s, 1, Len(s) - 1)     \* Array.pop


(***************************************************************************)
(* ApiService.solveSystem, in the four revisions the repository holds.     *)
(***************************************************************************)
RevLinear == "solve/linear"   \* posts to /solve/linear, beside solveRootFinding and getPlot
RevSymbolic == "solve+symbolic"   \* posts to /solve, with the symbolic loop
RevFill == "solve+fill"       \* posts to /solve, default filling only, precision === null
RevPlain == "solve"           \* posts the request as it is
Revisions == {RevLinear, RevSymbolic, RevFill, RevPlain}

UrlOf(r) == IF r = RevLinear THEN "http://localhost:8080/api/solve/linear"
            ELSE "http://localhost:8080/api/solve"

\* /^[a-zA-Z]$/.test(cell): the cell is exactly one ASCII letter
AlphaChars ==
    {"a","b","c","d","e","f","g","h","i","j","k","l","m","n","o","p","q","r","s","t",
     "u","v","w","x","y","z","A","B","C","D","E","F","G","H","I","J","K","L","M","N",
     "O","P","Q","R","S","T","U","V","W","X","Y","Z"}
IsAlpha(cell) == cell \in AlphaChars

FillMatrixCell(cell) == IF cell = "" THEN "0" ELSE cell
FillConstantCell(cell) == IF cell = "" THEN "0" ELSE cell
FillGuessCellZero(cell) == IF cell = "" THEN "0" ELSE cell
FillGuessCell(cell) == IF cell = "" THEN "1" ELSE cell
FillRow(row) == [j \in 1..Len(row) |-> FillMatrixCell(row[j])]          \* row.map(...)

PNumber(n) == [tag |-> "number", n |-> n]
PNull == [tag |-> "null", n |-> 0]
PUndefined == [tag |-> "undefined", n |-> 0]
LooseNull(p) == p.tag \in {"null", "undefined"}      \* p == null
StrictNull(p) == p.tag = "null"                      \* p === null
DefaultPrecisionNew == 4
DefaultPrecisionOld == 5

\* the inner loop over one row: true while cells are letters, false and break at the first other
RECURSIVE ScanRow(_, _, _)
ScanRow(row, j, sym) ==
    IF j > Len(row) THEN sym
    ELSE IF IsAlpha(row[j]) THEN ScanRow(row, j + 1, "true")
    ELSE "false"
\* the outer loop: the break leaves only the inner loop, so every row is scanned
RECURSIVE ScanMatrix(_, _, _)
ScanMatrix(m, i, sym) ==
    IF i > Len(m) THEN sym ELSE ScanMatrix(m, i + 1, ScanRow(m[i], 1, sym))

Filled(r, request) ==
    [request EXCEPT
        !.matrix = [i \in 1..Len(request.matrix) |-> FillRow(request.matrix[i])],
        !.constants = [i \in 1..Len(request.constants) |-> FillConstantCell(request.constants[i])],
        !.initialGuess = [defined |-> TRUE,
                         cells |-> [i \in 1..Len(request.initialGuess.cells) |->
                                      FillGuessCell(request.initialGuess.cells[i])]],
        !.precision = IF r = RevFill
                      THEN (IF StrictNull(request.precision) THEN PNumber(DefaultPrecisionOld) ELSE request.precision)
                      ELSE (IF LooseNull(request.precision) THEN PNumber(DefaultPrecisionNew) ELSE request.precision)]

\* solveSystem(request) of revision r: [threw, url, body]
solveSystem(r, request) ==
    IF r = RevPlain THEN [threw |-> FALSE, url |-> UrlOf(r), body |-> request]
    ELSE IF ~request.initialGuess.defined
         \* request.initialGuess!.map(...) on undefined: TypeError after matrix and constants
         \* were reassigned on the request object, before http.post
         THEN [threw |-> TRUE, url |-> "", body |-> request]
    ELSE IF r = RevFill THEN [threw |-> FALSE, url |-> UrlOf(r), body |-> Filled(r, request)]
    ELSE [threw |-> FALSE, url |-> UrlOf(r),
          body |-> [Filled(r, request) EXCEPT
                      !.symbolic = ScanMatrix(Filled(r, request).matrix, 1, request.symbolic)]]

\* the arrays the caller handed to solveSystem with every empty cell overwritten in place
ArgumentArraysFilledInPlace(r, request) ==
    IF r = RevPlain
    THEN [matrix |-> request.matrix, constants |-> request.constants,
          initialGuess |-> request.initialGuess.cells]
    ELSE [matrix |-> [i \in 1..Len(request.matrix) |-> FillRow(request.matrix[i])],
          constants |-> [i \in 1..Len(request.constants) |-> FillConstantCell(request.constants[i])],
          initialGuess |-> [i \in 1..Len(request.initialGuess.cells) |->
                              FillGuessCell(request.initialGuess.cells[i])]]

\* the arrays the caller handed to solveSystem, as they are after the call: every revision
\* builds new arrays with map() and rebinds the request's own properties to them, and none
\* writes a cell of the arrays it was given
ArgumentArraysAfter(r, request) ==
    [matrix |-> request.matrix, constants |-> request.constants,
     initialGuess |-> request.initialGuess.cells]

(***************************************************************************)
(* The two view-controllers.  The fields and handlers the two classes      *)
(* share are modelled once; kind selects the lines that differ.            *)
(***************************************************************************)
Linear == "linear"
Root == "root"

FallbackLinear == "An error occurred"
FallbackRoot == "An error occurred while solving"
FallbackPlot == "An error occurred while generating plot"

FormPrecision == 5
FormMaxIterations == 50
InitialEquations == 3
MinEquations == 2
MinSpeed == 1
MaxSpeed == 10
InitialSpeed == 5
SpeedLevels == {InitialSpeed, MaxSpeed}     \* slider positions tried

\* the object literal built in LinearSystemSolverComponent.handleSolve
LinearPayload ==
    [method |-> "gauss-elimination", matrix |-> matrix, constants |-> constants,
     precision |-> PNumber(FormPrecision), scaling |-> FALSE, stepByStep |-> TRUE,
     luForm |-> "doolittle", initialGuess |-> [defined |-> TRUE, cells |-> initialGuess],
     maxIterations |-> FormMaxIterations, tolerance |-> "0.00001", symbolic |-> Absent]

requiresInterval(f) == f.method = "bisection" \/ f.method = "false-position"
requiresSingleGuess(f) == f.method = "fixed-point" \/ f.method = "newton" \/ f.method = "modified-newton"
requiresTwoGuesses(f) == f.method = "secant"

\* the request built with gEquation attached for every single-guess method
RootPayloadAnySingleGuess(f) ==
    LET base == [method |-> f.method, equation |-> f.equation, precision |-> FormPrecision,
                 eps |-> "0.00001", maxIterations |-> FormMaxIterations, stepByStep |-> TRUE,
                 xLower |-> Absent, xUpper |-> Absent, x0 |-> Absent, x1 |-> Absent,
                 gEquation |-> Absent]
    IN  IF requiresInterval(f) THEN [base EXCEPT !.xLower = f.xLower, !.xUpper = f.xUpper]
        ELSE IF requiresSingleGuess(f)
             THEN IF f.gEquation # ""
                  THEN [base EXCEPT !.x0 = f.x0, !.gEquation = f.gEquation]
                  ELSE [base EXCEPT !.x0 = f.x0]
        ELSE IF requiresTwoGuesses(f) THEN [base EXCEPT !.x0 = f.x0, !.x1 = f.x1]
        ELSE base

\* the object literal built in RootFinderComponent.handleSolve, with its method-specific fields
RootPayload(f) ==
    LET base == [method |-> f.method, equation |-> f.equation, precision |-> FormPrecision,
                 eps |-> "0.00001", maxIterations |-> FormMaxIterations, stepByStep |-> TRUE,
                 xLower |-> Absent, xUpper |-> Absent, x0 |-> Absent, x1 |-> Absent,
                 gEquation |-> Absent]
    IN  IF requiresInterval(f) THEN [base EXCEPT !.xLower = f.xLower, !.xUpper = f.xUpper]
        ELSE IF requiresSingleGuess(f)
             THEN IF f.method = "fixed-point" /\ f.gEquation # ""
                  THEN [base EXCEPT !.x0 = f.x0, !.gEquation = f.gEquation]
                  ELSE [base EXCEPT !.x0 = f.x0]
        ELSE IF requiresTwoGuesses(f) THEN [base EXCEPT !.x0 = f.x0, !.x1 = f.x1]
        ELSE base

ConstructedRootForm ==
    [equation |-> "", method |-> "bisection", xLower |-> "", xUpper |-> "",
     x0 |-> "", x1 |-> "", gEquation |-> ""]
NoRootForm == [equation |-> "", method |-> "", xLower |-> "", xUpper |-> "",
               x0 |-> "", x1 |-> "", gEquation |-> ""]

\* ---- timers -------------------------------------------------------------
TimerIds == 1..MaxTimers
LiveIds == {t.id : t \in timers}
\* the handle setInterval returns: an id no live timer has
FreshId(ts) == CHOOSE i \in TimerIds : /\ i \notin {t.id : t \in ts}
                                       /\ \A k \in TimerIds : k \notin {t.id : t \in ts} => i <= k
IntervalMsFromTwoThousand(level) == 2000 - (level * 200)
IntervalMs(level) == 2200 - (level * 200)

\* stopSimulation(): the values it leaves in isPlaying, simulationInterval, timers
StoppedTimersNotCleared(iv, ts) == ts
StoppedTimers(iv, ts) == IF iv # NullTimer THEN {t \in ts : t.id # iv} ELSE ts

\* stopSimulation() clearing the timer and keeping the handle in the field
stopSimulationHandleKept ==
    /\ isPlaying' = FALSE
    /\ timers' = StoppedTimers(simulationInterval, timers)
    /\ simulationInterval' = simulationInterval

stopSimulationEffect ==
    /\ isPlaying' = FALSE
    /\ timers' = StoppedTimers(simulationInterval, timers)
    /\ simulationInterval' = NullTimer

\* startSimulation() run on the state (cs, iv, ts): setInterval registers a new timer
\* and its handle overwrites whatever simulationInterval held
StartFrom(cs, ts) ==
    LET id == FreshId(ts)
    IN  /\ currentStep' = (IF cs >= Len(steps) - 1 THEN 0 ELSE cs)
        /\ isPlaying' = TRUE
        /\ simulationInterval' = id
        /\ timers' = ts \cup {[id |-> id, ms |-> IntervalMs(speedLevel)]}
CanSetInterval(ts) == Cardinality(ts) < MaxTimers

nextStepOffByOne ==
    IF currentStep < Len(steps)
    THEN /\ currentStep' = currentStep + 1
         /\ UNCHANGED simVars
    ELSE /\ stopSimulationEffect
         /\ UNCHANGED currentStep

nextStepNeverStops ==
    IF currentStep < Len(steps) - 1
    THEN /\ currentStep' = currentStep + 1
         /\ UNCHANGED simVars
    ELSE UNCHANGED <<currentStep, simVars>>

\* nextStep(): advance, or stop at the last step
nextStepEffect ==
    IF currentStep < Len(steps) - 1
    THEN /\ currentStep' = currentStep + 1
         /\ UNCHANGED simVars
    ELSE /\ stopSimulationEffect
         /\ UNCHANGED currentStep


\* ---- HTTP error bodies (HttpErrorResponse.error) ---------------------------
ErrorTexts == {Absent, "", "bad equation"}
MessageTexts == {Absent, "", "server failure"}
NoErrorBody == [present |-> FALSE, error |-> Absent, message |-> Absent]
ErrorBodies == {NoErrorBody} \cup
               {[present |-> TRUE, error |-> e, message |-> m] : e \in ErrorTexts, m \in MessageTexts}
BodyError(b) == IF b.present THEN b.error ELSE Absent          \* error.error?.error
BodyMessage(b) == IF b.present THEN b.message ELSE Absent      \* error.error?.message

\* the string each error callback stores
LinearErrorTextNoFallback(b) == BodyMessage(b)
LinearErrorText(b) == OrElse(BodyMessage(b), FallbackLinear)
RootErrorText(b) == OrElse(BodyError(b), OrElse(BodyMessage(b), FallbackRoot))
PlotErrorText(b) == OrElse(BodyMessage(b), FallbackPlot)

\* the response the backend gives request id with a trace of n steps
StepsOf(id, n) == [i \in 1..n |-> <<id, i>>]
ResponseOf(id, has, n) == [req |-> id, hasSteps |-> has, steps |-> IF has THEN StepsOf(id, n) ELSE <<>>]

Active == phase = "active"

\* ---- lifecycle ---------------------------------------------------------------
initializeMatrixEffect ==
    /\ matrix' = Fill(numEquations, Fill(numEquations, ""))
    /\ constants' = Fill(numEquations, "")
    /\ initialGuess' = Fill(numEquations, "0")

ngOnInit ==
    /\ phase = "constructed"
    /\ phase' = "active"
    /\ IF kind = Linear
       THEN /\ initializeMatrixEffect
            /\ UNCHANGED <<numEquations, rootForm>>
       ELSE /\ rootForm' = [rootForm EXCEPT !.equation = "x^2 - 4", !.xLower = "-5",
                                            !.xUpper = "5", !.x0 = "1", !.x1 = "2"]
            /\ UNCHANGED <<numEquations, matrix, constants, initialGuess>>
    /\ UNCHANGED <<kind, resVars, plotVars, simVars, speedLevel, netVars, rev, apiVars, themeVars>>

ngOnDestroy ==
    /\ Active
    /\ phase' = "destroyed"
    /\ stopSimulationEffect
    /\ UNCHANGED <<kind, formVars, resVars, plotVars, speedLevel, netVars, rev, apiVars, themeVars>>

\* ---- the linear form ---------------------------------------------------------
LinearForm ==
    [numEquations |-> numEquations, matrix |-> matrix, constants |-> constants,
     initialGuess |-> initialGuess]
SetLinearForm(f) ==
    /\ numEquations' = f.numEquations
    /\ matrix' = f.matrix
    /\ constants' = f.constants
    /\ initialGuess' = f.initialGuess

\* the form addEquation() leaves, run on the form f
addEquationTo(f) ==
    [numEquations |-> f.numEquations + 1,
     matrix |-> Append([i \in 1..Len(f.matrix) |-> Append(f.matrix[i], "")],
                       Fill(f.numEquations + 1, "")),
     constants |-> Append(f.constants, ""),
     initialGuess |-> Append(f.initialGuess, "0")]

\* the form removeEquation() leaves, run on the form f
removeEquationFrom(f) ==
    IF f.numEquations > MinEquations
    THEN [numEquations |-> f.numEquations - 1,
          matrix |-> Pop([i \in 1..Len(f.matrix) |-> Pop(f.matrix[i])]),
          constants |-> Pop(f.constants),
          initialGuess |-> Pop(f.initialGuess)]
    ELSE f

addEquation ==
    /\ Active /\ kind = Linear
    /\ numEquations < MaxEquations
    /\ SetLinearForm(addEquationTo(LinearForm))
    /\ UNCHANGED <<kind, phase, rootForm, resVars, plotVars, simVars, speedLevel, netVars,
                   rev, apiVars, themeVars>>

removeEquation ==
    /\ Active /\ kind = Linear
    /\ SetLinearForm(removeEquationFrom(LinearForm))
    /\ UNCHANGED <<kind, phase, rootForm, resVars, plotVars, simVars, speedLevel, netVars,
                   rev, apiVars, themeVars>>

\* ---- solving -------------------------------------------------------------------
\* what subscribe() puts on the wire for the request numbered id
Posted(id) ==
    IF kind = Linear
    THEN LET out == solveSystem(rev, LinearPayload)
         IN  IF out.threw THEN {} ELSE {[id |-> id, url |-> out.url, body |-> out.body]}
    ELSE {[id |-> id, url |-> "http://localhost:8080/api/solve/nonlinear", body |-> RootPayload(rootForm)]}

handleSolve ==
    /\ Active
    /\ nextReq < MaxRequests
    /\ loading' = TRUE
    /\ result' = NullResult
    /\ steps' = <<>>
    /\ currentStep' = 0
    /\ errorMessage' = (IF kind = Root THEN "" ELSE errorMessage)
    /\ stopSimulationEffect
    /\ inFlight' = inFlight \cup Posted(nextReq + 1)
    /\ nextReq' = nextReq + 1
    /\ IF kind = Linear
       THEN LET after == ArgumentArraysAfter(rev, LinearPayload)
            IN  /\ matrix' = after.matrix
                /\ constants' = after.constants
                /\ initialGuess' = after.initialGuess
       ELSE UNCHANGED <<matrix, constants, initialGuess>>
    /\ UNCHANGED <<kind, phase, numEquations, rootForm, plotVars, speedLevel, rev, apiVars, themeVars>>

\* the next: callback of the request q
SolveResponse(q, has, n) ==
    /\ q \in inFlight
    /\ inFlight' = inFlight \ {q}
    /\ LET response == ResponseOf(q.id, has, n)
       IN  /\ result' = response
           /\ IF response.hasSteps /\ Len(response.steps) > 0
              THEN steps' = response.steps /\ currentStep' = 0
              ELSE UNCHANGED <<steps, currentStep>>
    /\ loading' = FALSE
    /\ UNCHANGED <<kind, phase, formVars, errorMessage, plotVars, simVars, speedLevel, nextReq,
                   rev, apiVars, themeVars>>

\* the error: callback of the request q, given the HTTP error body b
SolveError(q, b) ==
    /\ q \in inFlight
    /\ inFlight' = inFlight \ {q}
    /\ errorMessage' = (IF kind = Linear THEN LinearErrorText(b) ELSE RootErrorText(b))
    /\ loading' = FALSE
    /\ UNCHANGED <<kind, phase, formVars, result, steps, currentStep, plotVars, simVars,
                   speedLevel, nextReq, rev, apiVars, themeVars>>

\* ---- plotting (RootFinderComponent) ----------------------------------------------
handlePlot ==
    /\ Active /\ kind = Root
    /\ plotInFlight < MaxPlots
    /\ loadingPlot' = TRUE
    /\ plotImage' = Absent
    /\ plotErrorMessage' = ""
    /\ plotInFlight' = plotInFlight + 1
    /\ UNCHANGED <<kind, phase, formVars, resVars, simVars, speedLevel, netVars, rev, apiVars, themeVars>>

PlotResponse ==
    /\ plotInFlight > 0
    /\ plotInFlight' = plotInFlight - 1
    /\ plotImage' = "data:image/png;base64"
    /\ loadingPlot' = FALSE
    /\ UNCHANGED <<kind, phase, formVars, resVars, plotErrorMessage, simVars, speedLevel, netVars,
                   rev, apiVars, themeVars>>

PlotError(b) ==
    /\ plotInFlight > 0
    /\ plotInFlight' = plotInFlight - 1
    /\ plotErrorMessage' = PlotErrorText(b)
    /\ loadingPlot' = FALSE
    /\ UNCHANGED <<kind, phase, formVars, resVars, plotImage, simVars, speedLevel, netVars,
                   rev, apiVars, themeVars>>


\* ---- playback ------------------------------------------------------------------------
previousStep ==
    /\ Active
    /\ currentStep' = (IF currentStep > 0 THEN currentStep - 1 ELSE currentStep)
    /\ UNCHANGED <<kind, phase, formVars, result, steps, loading, errorMessage, plotVars, simVars,
                   speedLevel, netVars, rev, apiVars, themeVars>>

nextStep ==
    /\ Active
    /\ nextStepEffect
    /\ UNCHANGED <<kind, phase, formVars, result, steps, loading, errorMessage, plotVars,
                   speedLevel, netVars, rev, apiVars, themeVars>>

\* the setInterval callback of the live timer t
Tick(t) ==
    /\ t \in timers
    /\ nextStepEffect
    /\ UNCHANGED <<kind, phase, formVars, result, steps, loading, errorMessage, plotVars,
                   speedLevel, netVars, rev, apiVars, themeVars>>

startSimulation ==
    /\ Active
    /\ CanSetInterval(timers)
    /\ StartFrom(currentStep, timers)
    /\ UNCHANGED <<kind, phase, formVars, result, steps, loading, errorMessage, plotVars,
                   speedLevel, netVars, rev, apiVars, themeVars>>

stopSimulation ==
    /\ Active
    /\ stopSimulationEffect
    /\ UNCHANGED <<kind, phase, formVars, resVars, plotVars, speedLevel, netVars, rev, apiVars, themeVars>>

toggleSimulation ==
    /\ Active
    /\ IF isPlaying
       THEN stopSimulationEffect /\ UNCHANGED currentStep
       ELSE CanSetInterval(timers) /\ StartFrom(currentStep, timers)
    /\ UNCHANGED <<kind, phase, formVars, result, steps, loading, errorMessage, plotVars,
                   speedLevel, netVars, rev, apiVars, themeVars>>

\* the slider's two-way binding writes the field before the handler runs
setSpeedLevel(v) ==
    /\ Active
    /\ speedLevel' = v
    /\ UNCHANGED <<kind, phase, formVars, resVars, plotVars, simVars, netVars, rev, apiVars, themeVars>>

\* stopSimulation() then startSimulation(), when playing
onSpeedChange ==
    /\ Active
    /\ IF isPlaying
       THEN /\ CanSetInterval(StoppedTimers(simulationInterval, timers))
            /\ StartFrom(currentStep, StoppedTimers(simulationInterval, timers))
       ELSE UNCHANGED <<currentStep, simVars>>
    /\ UNCHANGED <<kind, phase, formVars, result, steps, loading, errorMessage, plotVars,
                   speedLevel, netVars, rev, apiVars, themeVars>>

clearAll ==
    /\ Active
    /\ IF kind = Linear
       THEN /\ initializeMatrixEffect
            /\ UNCHANGED <<numEquations, rootForm, plotImage, plotErrorMessage>>
       ELSE /\ rootForm' = [rootForm EXCEPT !.equation = "", !.xLower = "", !.xUpper = "",
                                            !.x0 = "", !.x1 = ""]
            /\ plotImage' = Absent
            /\ plotErrorMessage' = ""
            /\ UNCHANGED <<numEquations, matrix, constants, initialGuess>>
    /\ result' = NullResult
    /\ steps' = <<>>
    /\ currentStep' = 0
    /\ errorMessage' = ""
    /\ stopSimulationEffect
    /\ UNCHANGED <<kind, phase, loading, loadingPlot, plotInFlight, speedLevel, netVars,
                   rev, apiVars, themeVars>>

\* ---- values the variables of the other specifications rest at ----------------------------
NoRequest == [method |-> "", matrix |-> <<>>, constants |-> <<>>, precision |-> PUndefined,
              scaling |-> FALSE, stepByStep |-> FALSE, luForm |-> "",
              initialGuess |-> [defined |-> FALSE, cells |-> <<>>],
              maxIterations |-> 0, tolerance |-> "", symbolic |-> Absent]
NoOutcome == [threw |-> FALSE, url |-> "", body |-> NoRequest]
ApiIdle == apiRequest = NoRequest /\ apiOutcome = NoOutcome
ThemeIdle ==
    /\ localStorage = Absent /\ prefersDark = FALSE /\ rootClassDark = FALSE
    /\ themeService = "none" /\ darkModeSubject = FALSE /\ emitted = <<>>
    /\ toggleIsDarkMode = FALSE /\ subscribed = FALSE /\ sessions = 0

\* ---- one view-controller -------------------------------------------------------------------
Init ==
    /\ kind \in {Linear, Root}
    /\ rev = RevLinear      \* the revision that serves both view-controllers
    /\ phase = "constructed"
    /\ numEquations = (IF kind = Linear THEN InitialEquations ELSE 0)
    /\ matrix = <<>> /\ constants = <<>> /\ initialGuess = <<>>
    /\ rootForm = (IF kind = Root THEN ConstructedRootForm ELSE NoRootForm)
    /\ result = NullResult /\ steps = <<>> /\ currentStep = 0
    /\ loading = FALSE /\ errorMessage = ""
    /\ plotImage = Absent /\ loadingPlot = FALSE /\ plotErrorMessage = "" /\ plotInFlight = 0
    /\ isPlaying = FALSE /\ speedLevel = InitialSpeed /\ simulationInterval = NullTimer
    /\ timers = {}
    /\ inFlight = {} /\ nextReq = 0
    /\ ApiIdle /\ ThemeIdle

SolveNet ==
    \/ \E q \in inFlight : \E has \in BOOLEAN : \E n \in 0..MaxSteps : SolveResponse(q, has, n)
    \/ \E q \in inFlight : \E b \in ErrorBodies : SolveError(q, b)

PlotNet ==
    \/ PlotResponse
    \/ \E b \in ErrorBodies : PlotError(b)

TimerNext == \E t \in timers : Tick(t)

\* forms, solving and playback of one view-controller, every public method callable.
\* The plot handlers read and write plotVars only and are explored in RequestSpec; the
\* slider's writes to speedLevel are explored in UISpec.
Next ==
    \/ ngOnInit
    \/ ngOnDestroy
    \/ addEquation
    \/ removeEquation
    \/ handleSolve
    \/ previousStep
    \/ nextStep
    \/ toggleSimulation
    \/ startSimulation
    \/ stopSimulation
    \/ onSpeedChange
    \/ clearAll
    \/ SolveNet
    \/ TimerNext

Spec == Init /\ [][Next]_vars

\* the same without startSimulation and stopSimulation invoked on their own: playback is
\* started and stopped only through toggleSimulation, onSpeedChange and the other handlers
UINext ==
    \/ ngOnInit
    \/ ngOnDestroy
    \/ addEquation
    \/ removeEquation
    \/ handleSolve
    \/ previousStep
    \/ nextStep
    \/ toggleSimulation
    \/ \E v \in SpeedLevels : setSpeedLevel(v)
    \/ onSpeedChange
    \/ clearAll
    \/ SolveNet
    \/ TimerNext

UISpec == Init /\ [][UINext]_vars

\* the interval timers keep firing while they are live
FairSpec == Init /\ [][Next]_vars /\ WF_vars(TimerNext)

\* requests, responses and failures, plots included; no playback
RequestNext ==
    \/ ngOnInit
    \/ ngOnDestroy
    \/ handleSolve
    \/ handlePlot
    \/ clearAll
    \/ SolveNet
    \/ PlotNet

RequestSpec == Init /\ [][RequestNext]_vars

\* ---- typing into the linear form ------------------------------------------------------
MatrixTexts == {"", "2"}          \* texts typed into a coefficient cell
ConstantTexts == {"", "7"}        \* texts typed into a right-hand-side cell
GuessTexts == {"0", ""}           \* texts typed into an initial-guess cell

\* how many cells hold something other than what initializeMatrix put there
EditedCells ==
    Cardinality({p \in (1..Len(matrix)) \X (1..Len(matrix)) :
                    p[2] <= Len(matrix[p[1]]) /\ matrix[p[1]][p[2]] # ""})
    + Cardinality({i \in 1..Len(constants) : constants[i] # ""})
    + Cardinality({i \in 1..Len(initialGuess) : initialGuess[i] # "0"})

\* the two-way binding of the coefficient input at row i, column j
typeMatrixCell(i, j, v) ==
    /\ Active /\ kind = Linear
    /\ i \in 1..Len(matrix) /\ j \in 1..Len(matrix[i])
    /\ matrix[i][j] # v
    /\ (v = "" \/ EditedCells < MaxEdits)
    /\ matrix' = [matrix EXCEPT ![i][j] = v]
    /\ UNCHANGED <<kind, phase, numEquations, constants, initialGuess, rootForm, resVars, plotVars,
                   simVars, speedLevel, netVars, rev, apiVars, themeVars>>

\* the two-way binding of the right-hand-side input at row i
typeConstant(i, v) ==
    /\ Active /\ kind = Linear
    /\ i \in 1..Len(constants)
    /\ constants[i] # v
    /\ (v = "" \/ EditedCells < MaxEdits)
    /\ constants' = [constants EXCEPT ![i] = v]
    /\ UNCHANGED <<kind, phase, numEquations, matrix, initialGuess, rootForm, resVars, plotVars,
                   simVars, speedLevel, netVars, rev, apiVars, themeVars>>

\* the two-way binding of the initial-guess input at row i
typeGuess(i, v) ==
    /\ Active /\ kind = Linear
    /\ i \in 1..Len(initialGuess)
    /\ initialGuess[i] # v
    /\ (v = "0" \/ EditedCells < MaxEdits)
    /\ initialGuess' = [initialGuess EXCEPT ![i] = v]
    /\ UNCHANGED <<kind, phase, numEquations, matrix, constants, rootForm, resVars, plotVars,
                   simVars, speedLevel, netVars, rev, apiVars, themeVars>>

FormEdit ==
    \/ \E i \in 1..numEquations, j \in 1..numEquations : \E v \in MatrixTexts : typeMatrixCell(i, j, v)
    \/ \E i \in 1..numEquations : \E v \in ConstantTexts : typeConstant(i, v)
    \/ \E i \in 1..numEquations : \E v \in GuessTexts : typeGuess(i, v)

FormInit == Init /\ kind = Linear

\* LinearSystemSolverComponent's form: resized, typed into and reset
FormNext ==
    \/ ngOnInit
    \/ addEquation
    \/ removeEquation
    \/ clearAll
    \/ FormEdit

FormSpec == FormInit /\ [][FormNext]_vars

\* the form filled in and then submitted, with any revision of ApiService injected
SubmitInit ==
    /\ rev \in Revisions
    /\ kind = Linear /\ phase = "constructed"
    /\ numEquations = InitialEquations
    /\ matrix = <<>> /\ constants = <<>> /\ initialGuess = <<>>
    /\ rootForm = NoRootForm
    /\ result = NullResult /\ steps = <<>> /\ currentStep = 0
    /\ loading = FALSE /\ errorMessage = ""
    /\ plotImage = Absent /\ loadingPlot = FALSE /\ plotErrorMessage = "" /\ plotInFlight = 0
    /\ isPlaying = FALSE /\ speedLevel = InitialSpeed /\ simulationInterval = NullTimer
    /\ timers = {}
    /\ inFlight = {} /\ nextReq = 0
    /\ ApiIdle /\ ThemeIdle

SubmitNext ==
    \/ ngOnInit
    \/ (nextReq = 0 /\ addEquation)
    \/ (nextReq = 0 /\ removeEquation)
    \/ (nextReq = 0 /\ FormEdit)
    \/ handleSolve

SubmitSpec == SubmitInit /\ [][SubmitNext]_vars

\* the solve button pressed only when the previous request has been answered
handleSolveWhenIdle == inFlight = {} /\ handleSolve

\* one request at a time: each is answered before the next is submitted, and the user
\* steps through the trace by hand in between
SequentialNext ==
    \/ ngOnInit
    \/ ngOnDestroy
    \/ handleSolveWhenIdle
    \/ SolveNet
    \/ previousStep
    \/ nextStep
    \/ clearAll

SequentialSpec == Init /\ [][SequentialNext]_vars

\* ---- the speed slider ----------------------------------------------------------------------
AllSpeedLevels == MinSpeed..MaxSpeed      \* 1 (Slow) to 10 (Fast)

\* playback started, stopped and re-timed at every position of the speed slider
SpeedNext ==
    \/ ngOnInit
    \/ \E v \in AllSpeedLevels : setSpeedLevel(v)
    \/ toggleSimulation
    \/ onSpeedChange
    \/ TimerNext

SpeedSpec == Init /\ [][SpeedNext]_vars

\* ---- the root-finder form --------------------------------------------------------------
Methods == {"bisection", "false-position", "fixed-point", "newton", "modified-newton", "secant"}
GEquations == {"", "cos(x)"}       \* texts typed into the g(x) field

\* the method drop-down's two-way binding writes the field
selectMethod(m) ==
    /\ Active /\ kind = Root
    /\ rootForm.method # m
    /\ rootForm' = [rootForm EXCEPT !.method = m]
    /\ UNCHANGED <<kind, phase, numEquations, matrix, constants, initialGuess, resVars, plotVars,
                   simVars, speedLevel, netVars, rev, apiVars, themeVars>>

\* the g(x) input's two-way binding writes the field
typeGEquation(g) ==
    /\ Active /\ kind = Root
    /\ rootForm.gEquation # g
    /\ rootForm' = [rootForm EXCEPT !.gEquation = g]
    /\ UNCHANGED <<kind, phase, numEquations, matrix, constants, initialGuess, resVars, plotVars,
                   simVars, speedLevel, netVars, rev, apiVars, themeVars>>

RootInit == Init /\ kind = Root

\* RootFinderComponent's form and the requests handleSolve builds from it
RootFormNext ==
    \/ ngOnInit
    \/ \E m \in Methods : selectMethod(m)
    \/ \E g \in GEquations : typeGEquation(g)
    \/ handleSolve
    \/ clearAll

RootFormSpec == RootInit /\ [][RootFormNext]_vars


(***************************************************************************)
(* ApiService.solveSystem as a function of its argument: ApiSpec hands it  *)
(* one request of a bounded family and records what it did.                *)
(***************************************************************************)
MatrixCells == {"", "a"}
VectorCells == {"", "7"}
Precisions == {PNull, PUndefined, PNumber(3)}
SquareMatrices(n) == [1..n -> [1..n -> MatrixCells]]
Vectors(n) == [1..n -> VectorCells]
Guesses(n) == {[defined |-> FALSE, cells |-> <<>>]} \cup
              {[defined |-> TRUE, cells |-> g] : g \in Vectors(n)}
MakeRequest(m, c, g, p) ==
    [method |-> "jacobi", matrix |-> m, constants |-> c, precision |-> p,
     scaling |-> FALSE, stepByStep |-> TRUE, luForm |-> "doolittle", initialGuess |-> g,
     maxIterations |-> FormMaxIterations, tolerance |-> "0.00001", symbolic |-> Absent]

Called == apiOutcome # NoOutcome

ControllerIdle ==
    /\ kind = Linear /\ phase = "constructed"
    /\ numEquations = InitialEquations
    /\ matrix = <<>> /\ constants = <<>> /\ initialGuess = <<>>
    /\ rootForm = NoRootForm
    /\ result = NullResult /\ steps = <<>> /\ currentStep = 0
    /\ loading = FALSE /\ errorMessage = ""
    /\ plotImage = Absent /\ loadingPlot = FALSE /\ plotErrorMessage = "" /\ plotInFlight = 0
    /\ isPlaying = FALSE /\ speedLevel = InitialSpeed /\ simulationInterval = NullTimer
    /\ timers = {}
    /\ inFlight = {} /\ nextReq = 0

ApiInit ==
    /\ rev \in Revisions
    /\ \E n \in 1..MaxN :
         \E m \in SquareMatrices(n), c \in Vectors(n), g \in Guesses(n), p \in Precisions :
            apiRequest = MakeRequest(m, c, g, p)
    /\ apiOutcome = NoOutcome
    /\ ControllerIdle /\ ThemeIdle

callSolveSystem ==
    /\ ~Called
    /\ apiOutcome' = solveSystem(rev, apiRequest)
    /\ UNCHANGED <<ctlVars, rev, apiRequest, themeVars>>

ApiNext == callSolveSystem

ApiSpec == ApiInit /\ [][ApiNext]_vars

(***************************************************************************)
(* ThemeService and ThemeToggleComponent over page loads of one browser    *)
(* profile: localStorage outlives the page, everything else does not.      *)
(***************************************************************************)
StringOfDigit(b) == IF b THEN "1" ELSE "0"
StringOf(b) == IF b THEN "true" ELSE "false"          \* String(newValue)

\* getInitialTheme()
getInitialTheme(saved, osDark) == IF saved # Absent THEN saved = "true" ELSE osDark

\* applyTheme(isDark) on a root element whose class list has 'dark' or not:
\* classList.add('dark') leaves it there, classList.remove('dark') leaves it absent
applyThemeAlwaysAdd(isDark, hasDark) == TRUE
applyTheme(isDark, hasDark) == IF isDark THEN TRUE ELSE FALSE

\* BehaviorSubject.next(v): delivered to the subscriber, when there is one
NextValue(v) ==
    /\ darkModeSubject' = v
    /\ IF subscribed
       THEN toggleIsDarkMode' = v /\ emitted' = Append(emitted, v)
       ELSE UNCHANGED <<toggleIsDarkMode, emitted>>

\* field initialiser and constructor of ThemeService, at application start
ThemeServiceConstructor ==
    /\ themeService = "none"
    /\ sessions < MaxSessions
    /\ sessions' = sessions + 1
    /\ themeService' = "alive"
    /\ darkModeSubject' = getInitialTheme(localStorage, prefersDark)
    /\ rootClassDark' = applyTheme(getInitialTheme(localStorage, prefersDark), rootClassDark)
    /\ UNCHANGED <<localStorage, prefersDark, emitted, toggleIsDarkMode, subscribed>>
    /\ UNCHANGED <<ctlVars, rev, apiVars>>

\* ThemeToggleComponent.ngOnInit: a BehaviorSubject replays its value on subscribe
ThemeToggleNgOnInit ==
    /\ themeService = "alive"
    /\ ~subscribed
    /\ subscribed' = TRUE
    /\ toggleIsDarkMode' = darkModeSubject
    /\ emitted' = Append(emitted, darkModeSubject)
    /\ UNCHANGED <<localStorage, prefersDark, rootClassDark, themeService, darkModeSubject, sessions>>
    /\ UNCHANGED <<ctlVars, rev, apiVars>>

toggleDarkMode ==
    /\ themeService = "alive"
    /\ Len(emitted) < MaxEmitted
    /\ LET newValue == ~darkModeSubject
       IN  /\ NextValue(newValue)
           /\ rootClassDark' = applyTheme(newValue, rootClassDark)
           /\ localStorage' = StringOf(newValue)
    /\ UNCHANGED <<prefersDark, themeService, subscribed, sessions>>
    /\ UNCHANGED <<ctlVars, rev, apiVars>>

\* the user switches the operating system's colour scheme
PreferenceChange ==
    /\ prefersDark' = ~prefersDark
    /\ UNCHANGED <<localStorage, rootClassDark, themeService, darkModeSubject, emitted,
                   toggleIsDarkMode, subscribed, sessions>>
    /\ UNCHANGED <<ctlVars, rev, apiVars>>

\* the page is closed: document, service and component go, localStorage stays.
\* darkModeSubject keeps the value the service had when the page closed; the next
\* document's root element starts with whatever class list its markup gives it.
PageUnload ==
    /\ themeService = "alive"
    /\ themeService' = "none"
    /\ rootClassDark' \in BOOLEAN
    /\ subscribed' = FALSE
    /\ toggleIsDarkMode' = FALSE
    /\ emitted' = <<>>
    /\ UNCHANGED <<localStorage, prefersDark, darkModeSubject, sessions>>
    /\ UNCHANGED <<ctlVars, rev, apiVars>>

ThemeInit ==
    /\ localStorage = Absent
    /\ prefersDark \in BOOLEAN
    /\ rootClassDark \in BOOLEAN
    /\ themeService = "none"
    /\ darkModeSubject = FALSE
    /\ emitted = <<>>
    /\ toggleIsDarkMode = FALSE
    /\ subscribed = FALSE
    /\ sessions = 0
    /\ rev = RevLinear
    /\ ControllerIdle /\ ApiIdle

ThemeNext ==
    \/ ThemeServiceConstructor
    \/ ThemeToggleNgOnInit
    \/ toggleDarkMode
    \/ PreferenceChange
    \/ PageUnload

ThemeSpec == ThemeInit /\ [][ThemeNext]_vars


(***************************************************************************)
(* Properties.                                                             *)
(***************************************************************************)
LastIndex == IF Len(steps) = 0 THEN 0 ELSE Len(steps) - 1
AtLastStep == currentStep = LastIndex
PlaybackStopped == ~isPlaying /\ simulationInterval = NullTimer

\* C1: in both view-controllers the step index stays inside the step trace in every
\* reachable state: 0 <= currentStep, currentStep <= Len(steps) - 1 when steps is not
\* empty, and currentStep = 0 when it is.
C1_StepIndexInRange ==
    /\ 0 <= currentStep
    /\ (Len(steps) = 0 => currentStep = 0)
    /\ (Len(steps) > 0 => currentStep <= Len(steps) - 1)

\* playback has advanced to the last step of a trace of two steps, a second request made
C1_Witness == isPlaying /\ Len(steps) >= 2 /\ currentStep = Len(steps) - 1 /\ nextReq = MaxRequests

\* C2: playback stops by itself at the end.  When from some point on only timer ticks
\* happen, playback is eventually stopped for good (isPlaying false, simulationInterval
\* null); the tick that stops it leaves currentStep at the last index (0 for an empty
\* trace) with the timer that startSimulation registered cleared; and a tick on a stopped
\* playback at the last index does not move currentStep.
C2_PlaybackStopsAtEnd ==
    /\ (<>[][TimerNext]_vars) => <>[]PlaybackStopped
    /\ [][(isPlaying /\ TimerNext /\ ~isPlaying')
             => (AtLastStep' /\ simulationInterval' = NullTimer /\ simulationInterval \notin LiveIds')]_vars
    /\ [][(PlaybackStopped /\ AtLastStep /\ TimerNext) => currentStep' = currentStep]_vars

\* playing, at the last step of a trace of two steps: the next tick is the one that stops
C2_Witness == isPlaying /\ simulationInterval # NullTimer /\ Len(steps) >= 2 /\ AtLastStep

\* out is inp with every "" replaced by default and nothing else changed
CellsFilled(out, inp, default) ==
    /\ Len(out) = Len(inp)
    /\ \A i \in 1..Len(inp) : out[i] = (IF inp[i] = "" THEN default ELSE inp[i])

BodyDefaultFilled ==
    LET b == apiOutcome.body
        r == apiRequest
    IN  /\ Len(b.matrix) = Len(r.matrix)
        /\ \A i \in 1..Len(r.matrix) : CellsFilled(b.matrix[i], r.matrix[i], "0")
        /\ CellsFilled(b.constants, r.constants, "0")
        /\ b.initialGuess.defined
        /\ CellsFilled(b.initialGuess.cells, r.initialGuess.cells, "1")

\* C3 as stated: whatever the revision of ApiService, the body solveSystem POSTs has
\* every empty matrix and constants cell replaced by "0", every empty initialGuess cell
\* replaced by "1", every other cell and every shape unchanged.
C3_EveryRevisionFills == (Called /\ ~apiOutcome.threw) => BodyDefaultFilled

\* C3, amended: the same of every revision of ApiService.solveSystem except the one that
\* posts the request as it is.
C3_FillingRevisionsFill ==
    (Called /\ ~apiOutcome.threw /\ rev # RevPlain) => BodyDefaultFilled

\* a POST of a 2 x 2 system that had empty and non-empty cells in all three arrays
C3_Witness ==
    /\ Called /\ ~apiOutcome.threw /\ rev = RevLinear
    /\ apiRequest.matrix = <<(<<"", "a">>), (<<"a", "">>)>>
    /\ apiRequest.constants = <<"", "7">>
    /\ apiRequest.initialGuess.cells = <<"7", "">>
    /\ apiOutcome.body.initialGuess.cells = <<"7", "1">>

\* C4: in both view-controllers the error callback of a solve request leaves loading
\* false and errorMessage a non-empty string, whatever the HTTP error body is (no body,
\* a body without error and message, empty fields).
C4_ErrorCallbackSetsMessage ==
    [][\A q \in inFlight : \A b \in ErrorBodies :
          SolveError(q, b) => (loading' = FALSE /\ Truthy(errorMessage'))]_vars

\* each view-controller shows its fallback text with nothing loading
C4_Witness ==
    /\ ~loading
    /\ errorMessage = (IF kind = Linear THEN FallbackLinear ELSE FallbackRoot)
    /\ nextReq > 0

\* the body b carries an error field or a message field
Carries(b) == b.present /\ (b.error # Absent \/ b.message # Absent)
ShownFromBody(shown, b, fallback) ==
    IF Carries(b) THEN shown \in ({b.error, b.message} \ {Absent}) ELSE shown = fallback

\* C5 as stated: for every failed request (linear solve, root-finding solve, plot) the
\* string shown is the error or the message field of the HTTP error body when the body
\* carries one of them, and the fallback text only when it carries neither.
C5_ShownTextIsFromBody ==
    [][/\ \A q \in inFlight : \A b \in ErrorBodies :
            SolveError(q, b) =>
                ShownFromBody(errorMessage', b, IF kind = Linear THEN FallbackLinear ELSE FallbackRoot)
       /\ \A b \in ErrorBodies :
            PlotError(b) => ShownFromBody(plotErrorMessage', b, FallbackPlot)]_vars

\* C6 as stated: the loading flag gates duplicate submissions, so at most one solve
\* request of a view-controller is outstanding and loading is true exactly while it is.
C6_LoadingGatesSubmissions ==
    /\ Cardinality(inFlight) <= 1
    /\ (loading <=> inFlight # {})


\* C7: the dark-mode flag read on load.  Whenever a ThemeService is constructed: if
\* localStorage holds a darkMode entry, the new flag equals the flag the previous page
\* load ended with (the last value written); if it holds none, the new flag equals the
\* operating system's prefers-color-scheme: dark match; and in both cases the root
\* element has class 'dark' after construction iff the flag is true.
C7_FlagReadOnLoad ==
    [][ThemeServiceConstructor =>
          /\ (localStorage # Absent => darkModeSubject' = darkModeSubject)
          /\ (localStorage = Absent => darkModeSubject' = prefersDark)
          /\ (rootClassDark' <=> darkModeSubject')]_vars

\* a later page load that came up dark from the stored entry on a system preferring light
C7_Witness ==
    /\ themeService = "alive" /\ sessions >= 2 /\ ~subscribed
    /\ localStorage = "true" /\ ~prefersDark /\ darkModeSubject /\ rootClassDark

\* C8: every toggleDarkMode negates the flag, writes "true" or "false" for the new value
\* to localStorage["darkMode"] and leaves the root element with class 'dark' iff the new
\* value is true; and whenever the service is alive and an entry is stored (so after every
\* toggle) the entry, isDarkMode, the root class and the value last delivered on darkMode$
\* agree.
C8_ToggleWritesOpposite ==
    /\ [][toggleDarkMode =>
             /\ darkModeSubject' = ~darkModeSubject
             /\ localStorage' = (IF darkModeSubject' THEN "true" ELSE "false")
             /\ (rootClassDark' <=> darkModeSubject')]_vars
    /\ []((themeService = "alive" /\ localStorage # Absent) =>
             /\ localStorage = (IF darkModeSubject THEN "true" ELSE "false")
             /\ (rootClassDark <=> darkModeSubject)
             /\ (subscribed => /\ toggleIsDarkMode = darkModeSubject
                               /\ emitted[Len(emitted)] = darkModeSubject))

\* the subscriber has received the replayed value and a toggled one; the flag is now false
C8_Witness ==
    /\ themeService = "alive" /\ subscribed /\ Len(emitted) >= 2
    /\ localStorage = "false" /\ ~darkModeSubject /\ ~rootClassDark /\ prefersDark

\* C9 as stated: after ngOnDestroy, whatever operations came before (startSimulation
\* among them), no interval timer the component created is live and isPlaying is false.
C9_NoTimerAfterDestroy == phase = "destroyed" => (timers = {} /\ ~isPlaying)

UserEdit == addEquation \/ removeEquation \/ clearAll \/ handleSolve

\* C10 as stated: when playback is running in the linear view-controller and the user
\* runs addEquation, removeEquation, clearAll or handleSolve, then right after it
\* isPlaying is false and no timer is live.
C10_EditStopsPlayback ==
    [][(kind = Linear /\ isPlaying /\ UserEdit) => (~isPlaying' /\ timers' = {})]_vars

\* C10, amended: when playback is running in the linear view-controller and the user runs
\* clearAll or handleSolve, then right after it isPlaying is false, simulationInterval is
\* null and the timer it held is cleared; addEquation and removeEquation leave isPlaying,
\* simulationInterval and the timers as they were.
C10_ResetStopsPlayback ==
    /\ [][(kind = Linear /\ isPlaying /\ (clearAll \/ handleSolve))
             => (PlaybackStopped' /\ simulationInterval \notin LiveIds')]_vars
    /\ [][(kind = Linear /\ (addEquation \/ removeEquation)) => UNCHANGED simVars]_vars

\* playback running in the linear view-controller over a trace, its form resized
C10_Witness ==
    /\ kind = Linear /\ isPlaying /\ simulationInterval \in LiveIds
    /\ Len(steps) >= 2 /\ numEquations = MinEquations

\* every cell of every row of m is a single alphabetic character
AllAlpha(m) == \A i \in 1..Len(m) : \A j \in 1..Len(m[i]) : IsAlpha(m[i][j])
HasSymbolicLoop(r) == r \in {RevLinear, RevSymbolic}

\* C11 as stated: in the revisions of ApiService.solveSystem that set the symbolic flag,
\* the transmitted flag is true if and only if every cell of every row of the
\* default-filled matrix is a single alphabetic character.
C11_SymbolicIffAllAlpha ==
    (Called /\ ~apiOutcome.threw /\ HasSymbolicLoop(rev)) =>
        (apiOutcome.body.symbolic = "true" <=> AllAlpha(apiOutcome.body.matrix))

\* the precision value transmitted when the request carried p and the default is d
PrecisionSent(p, d) == IF LooseNull(p) THEN PNumber(d) ELSE p

\* C12 as stated: the revision that posts to /solve/linear sends 4 and the earlier
\* revision (default filling only) sends 5 when the request's precision is null or
\* undefined, and both send a precision that is present unchanged.
C12_MissingPrecisionDefaulted ==
    (Called /\ ~apiOutcome.threw) =>
        /\ (rev = RevLinear =>
                apiOutcome.body.precision = PrecisionSent(apiRequest.precision, DefaultPrecisionNew))
        /\ (rev = RevFill =>
                apiOutcome.body.precision = PrecisionSent(apiRequest.precision, DefaultPrecisionOld))

\* C13 as stated: a request handed to solveSystem without initialGuess is still POSTed,
\* with its matrix and constants default-filled.
C13_MissingGuessStillPosted ==
    (Called /\ ~apiRequest.initialGuess.defined) =>
        /\ ~apiOutcome.threw
        /\ apiOutcome.url = UrlOf(rev)
        /\ Len(apiOutcome.body.matrix) = Len(apiRequest.matrix)
        /\ \A i \in 1..Len(apiRequest.matrix) :
              CellsFilled(apiOutcome.body.matrix[i], apiRequest.matrix[i], "0")
        /\ CellsFilled(apiOutcome.body.constants, apiRequest.constants, "0")

\* the fields among xLower, xUpper, x0, x1, gEquation that the request body b carries
MethodFields == {"xLower", "xUpper", "x0", "x1", "gEquation"}
Carried(b) == {f \in MethodFields : b[f] # Absent}

\* the method-specific fields a request for the form f is to carry
FieldsFor(f) ==
    IF f.method \in {"bisection", "false-position"} THEN {"xLower", "xUpper"}
    ELSE IF f.method \in {"newton", "modified-newton"} THEN {"x0"}
    ELSE IF f.method = "fixed-point"
         THEN (IF f.gEquation # "" THEN {"x0", "gEquation"} ELSE {"x0"})
    ELSE IF f.method = "secant" THEN {"x0", "x1"}
    ELSE {}

\* C14: every request RootFinderComponent.handleSolve builds carries method, equation,
\* precision, eps, maxIterations and stepByStep taken from the component, and of xLower,
\* xUpper, x0, x1 and gEquation exactly those of its method: xLower and xUpper for bisection
\* and false-position, x0 for newton and modified-newton, x0 and x1 for secant, x0 for
\* fixed-point together with gEquation exactly when the g(x) field is not empty; each
\* carried field holds the form's value, and no request of another method carries gEquation.
C14_RootRequestFields ==
    /\ [][(kind = Root /\ handleSolve) =>
             \E q \in inFlight' \ inFlight :
                /\ inFlight' = inFlight \cup {q}
                /\ q.body.method = rootForm.method /\ q.body.equation = rootForm.equation
                /\ q.body.precision = FormPrecision /\ q.body.eps # Absent
                /\ q.body.maxIterations = FormMaxIterations /\ q.body.stepByStep = TRUE
                /\ Carried(q.body) = FieldsFor(rootForm)
                /\ \A f \in Carried(q.body) : q.body[f] = rootForm[f]]_vars
    /\ [](kind = Root => \A q \in inFlight :
                            q.body.gEquation # Absent => q.body.method = "fixed-point")

\* a fixed-point request with g(x) and a secant request with emptied guesses, both built
C14_Witness ==
    /\ kind = Root
    /\ \E q \in inFlight : q.body.method = "fixed-point" /\ q.body.gEquation = "cos(x)"
                              /\ q.body.x0 = "1" /\ q.body.x1 = Absent
    /\ \E q \in inFlight : q.body.method = "secant" /\ q.body.x0 = "" /\ q.body.x1 = ""
                              /\ q.body.gEquation = Absent

\* C15: in both view-controllers, in every state reached through toggleSimulation,
\* onSpeedChange (after the slider wrote speedLevel), timer ticks, previousStep, nextStep,
\* handleSolve, the response and error callbacks, clearAll and ngOnDestroy, at most one
\* interval timer the component created is live, and isPlaying is true iff
\* simulationInterval is non-null iff that timer is the live one.
C15_OneTimerIffPlaying ==
    /\ Cardinality(timers) <= 1
    /\ (isPlaying <=> simulationInterval # NullTimer)
    /\ (isPlaying <=> timers # {})
    /\ (isPlaying => LiveIds = {simulationInterval})

\* playback of a fetched trace restarted by a speed change: one timer, at the new interval
C15_Witness ==
    /\ isPlaying /\ Len(steps) >= 2 /\ speedLevel = MaxSpeed
    /\ timers = {[id |-> simulationInterval, ms |-> IntervalMs(MaxSpeed)]}

\* C18 as stated: in both view-controllers, onSpeedChange while isPlaying is true leaves
\* currentStep and steps unchanged and leaves playback running with a single timer at the
\* interval of the new speedLevel; while isPlaying is false it changes nothing.
C18_SpeedChangeKeepsPosition ==
    [][onSpeedChange =>
          IF isPlaying
          THEN /\ currentStep' = currentStep /\ steps' = steps
               /\ isPlaying' /\ simulationInterval' # NullTimer
               /\ timers' = {[id |-> simulationInterval', ms |-> IntervalMs(speedLevel)]}
          ELSE UNCHANGED vars]_vars

\* the steps shown all come from the response of request id
TraceOf(id) == \A i \in 1..Len(steps) : steps[i][1] = id

\* C16 as stated: in both view-controllers, for any interleaving of handleSolve calls and
\* their response and error callbacks, once no request is outstanding the result and the
\* steps shown are those of the last request submitted (none when it failed), and at no
\* time do steps hold the trace of one response while result holds another response.
C16_ShowsLastRequest ==
    /\ (inFlight = {} /\ nextReq > 0) =>
          /\ (result # NullResult => result.req = nextReq)
          /\ TraceOf(nextReq)
    /\ (result # NullResult => TraceOf(result.req))

\* C17 as stated: in LinearSystemSolverComponent, in every state reached by handleSolve
\* calls that each complete before the next starts and by clearAll, result is non-null
\* only if errorMessage is empty.
C17_NoResultWithError ==
    kind = Linear => (result # NullResult => errorMessage = "")

\* C19: in LinearSystemSolverComponent, after ngOnInit and any sequence of addEquation,
\* removeEquation and clearAll (and typing into the cells), numEquations >= 2, matrix has
\* numEquations rows of numEquations cells each, constants and initialGuess have
\* numEquations entries each; removeEquation at numEquations = 2 changes nothing; and
\* addEquation followed by removeEquation gives back the form it started from, cell for cell.
C19_FormStaysSquare ==
    /\ []((kind = Linear /\ Active) =>
             /\ numEquations >= 2
             /\ Len(matrix) = numEquations
             /\ \A i \in 1..Len(matrix) : Len(matrix[i]) = numEquations
             /\ Len(constants) = numEquations
             /\ Len(initialGuess) = numEquations
             /\ removeEquationFrom(addEquationTo(LinearForm)) = LinearForm)
    /\ [][(removeEquation /\ numEquations = 2) => UNCHANGED vars]_vars

\* the form shrunk to two equations with typed cells in its last row and column
C19_Witness ==
    /\ kind = Linear /\ Active /\ numEquations = 2
    /\ matrix = <<(<<"", "">>), (<<"", "2">>)>> /\ constants = <<"", "7">>

\* C20: LinearSystemSolverComponent.handleSolve, which hands its matrix, constants and
\* initialGuess to ApiService.solveSystem, leaves all three with exactly the cell values
\* they had before the call, whichever revision of the service is injected: cells left
\* empty are still empty in the form.
C20_SolveLeavesFormAlone ==
    [][(kind = Linear /\ handleSolve) =>
          (matrix' = matrix /\ constants' = constants /\ initialGuess' = initialGuess
           /\ numEquations' = numEquations)]_vars

\* a form with empty cells submitted: the body on the wire is filled, the form is not
C20_Witness ==
    /\ kind = Linear /\ rev = RevLinear /\ numEquations = 2
    /\ matrix = <<(<<"", "2">>), (<<"", "">>)>> /\ initialGuess = <<"0", "">>
    /\ \E q \in inFlight :
          /\ q.body.matrix = <<(<<"0", "2">>), (<<"0", "0">>)>>
          /\ q.body.initialGuess.cells = <<"0", "1">>
          /\ q.body.constants = <<"0", "0">>

\* C21: the tick interval startSimulation hands to setInterval is 2200 - 200 * speedLevel
\* milliseconds: every timer it registers has that interval for the speedLevel of the
\* moment; for every integer speedLevel from 1 to 10 the interval is strictly positive and
\* strictly smaller than that of every lower level; it is 2000 at level 1 and 200 at level 10.
C21_TickInterval ==
    /\ [][\A t \in timers' \ timers : t.ms = 2200 - 200 * speedLevel]_vars
    /\ [](\A t \in timers : t.ms > 0)
    /\ [](speedLevel \in 1..10 =>
             /\ IntervalMs(speedLevel) > 0
             /\ \A v \in 1..10 : v < speedLevel => IntervalMs(v) > IntervalMs(speedLevel)
             /\ (speedLevel = 1 => IntervalMs(speedLevel) = 2000)
             /\ (speedLevel = 10 => IntervalMs(speedLevel) = 200))

\* playback restarted at the slowest position, after it had run at the fastest
C21_Witness ==
    /\ isPlaying /\ speedLevel = 1
    /\ timers = {[id |-> simulationInterval, ms |-> 2000]}

====
